---- MODULE Spec2Model ----
(***************************************************************************)
(* Buy vs Rent (src/app.py): the "Simulate" handler, which runs            *)
(* simulate_buy_scenario, then simulate_rent_scenario, then scans the two  *)
(* cumulative-spend series for the crossover month; and format_duration.   *)
(*                                                                         *)
(* Python's float quantities are modelled as exact rationals <<n, d>> in   *)
(* lowest terms with d > 0, so that +, -, * and < are the real-number      *)
(* operations (IEEE rounding is not modelled).  Python's None is the empty *)
(* tuple and a present value x is <<x>>.                                   *)
(***************************************************************************)
EXTENDS Integers, Sequences, FiniteSets, TLC

(***************************************************************************)
(* Bounds of the model.                                                    *)
(***************************************************************************)
\* max_months ranges over 0..MaxMonths (the caller passes 480).
MaxMonths == 3
\* format_duration is applied to 0..MaxDuration.
MaxDuration == 360

(***************************************************************************)
(* Rational arithmetic: the float operators of the source.                 *)
(***************************************************************************)
Abs(n) == IF n < 0 THEN -n ELSE n

RECURSIVE GCD(_, _)
GCD(a, b) == IF b = 0 THEN a ELSE GCD(b, a % b)

\* the rational n/d (d > 0) in lowest terms
Frac(n, d) == LET g == GCD(Abs(n), d) IN <<n \div g, d \div g>>

R(n) == <<n, 1>>
Zero == R(0)
One == R(1)

RAdd(a, b) == Frac(a[1] * b[2] + b[1] * a[2], a[2] * b[2])
RSub(a, b) == Frac(a[1] * b[2] - b[1] * a[2], a[2] * b[2])
RMul(a, b) == Frac(a[1] * b[1], a[2] * b[2])
RLt(a, b) == a[1] * b[2] < b[1] * a[2]
RLe(a, b) == a[1] * b[2] <= b[1] * a[2]
RGe(a, b) == RLe(b, a)

RECURSIVE RPow(_, _)
RPow(a, k) == IF k = 0 THEN One ELSE RMul(a, RPow(a, k - 1))

(***************************************************************************)
(* None and present values.                                                *)
(***************************************************************************)
None == <<>>
Some(x) == <<x>>
IsNone(o) == o = None
Val(o) == o[1]

(***************************************************************************)
(* Rate conversion (lines 36-41, 124-128).                                 *)
(***************************************************************************)
\* the monthly multipliers the model's annual rates stand for: the number
\* inputs of the rates have min_value=0.0, so a multiplier is at least 1
MonthlyMultipliers == {One, Frac(3, 2), R(2)}

\* the 12th roots of the numbers that have one among MonthlyMultipliers
TwelfthRoot ==
    [y \in {RPow(x, 12) : x \in MonthlyMultipliers} |->
        CHOOSE x \in MonthlyMultipliers : RPow(x, 12) = y]

\* (1 + annual_rate) ** (1 / 12)
MonthlyMultiplier(annual_rate) == TwelfthRoot[RAdd(One, annual_rate)]

\* mortgage_interest_rate / 12
MonthlyInterest(mortgage_interest_rate) == RMul(mortgage_interest_rate, Frac(1, 12))

\* the annual rate whose monthly multiplier is x
AnnualRateOf(x) == RSub(RPow(x, 12), One)


(***************************************************************************)
(* The inputs: the widget values at the moment "Simulate" is clicked       *)
(* (lines 182-200, 265-285).  The amount inputs have no min_value, so an   *)
(* amount may be negative; the rate inputs have min_value=0.0; the deposit *)
(* is 0..60 % and the mortgage rate 0..20 %.                               *)
(***************************************************************************)
SavingsValues == {R(-1), R(1), R(4)}
IncomeValues == {R(1), R(3)}
ExpensesValues == {R(2)}
IncomeGrowthValues == {AnnualRateOf(One), AnnualRateOf(R(2))}
InflationValues == {AnnualRateOf(Frac(3, 2))}
InvestReturnValues == {AnnualRateOf(One), AnnualRateOf(Frac(3, 2))}
HousePriceGrowthValues == {AnnualRateOf(One), AnnualRateOf(R(2))}
PropertyPriceValues == {R(-4), R(4)}
MortgageTermValues == {35}
MortgageRateValues == {Zero, Frac(12, 100)}
DepositFractionValues == {Zero, Frac(1, 4), Frac(1, 2)}
OwnerCostValues == {R(-1), R(1)}
OwnerCostInflationValues == {AnnualRateOf(One), AnnualRateOf(R(2))}
RentValues == {R(-1), R(2)}
RentInflationValues == {AnnualRateOf(One), AnnualRateOf(R(2))}

Configs ==
    [initial_savings : SavingsValues,
     monthly_income : IncomeValues,
     monthly_expenses : ExpensesValues,
     annual_income_growth : IncomeGrowthValues,
     annual_inflation_rate : InflationValues,
     annual_invest_return : InvestReturnValues,
     annual_house_price_growth : HousePriceGrowthValues,
     property_price : PropertyPriceValues,
     mortgage_term_years : MortgageTermValues,
     mortgage_interest_rate : MortgageRateValues,
     deposit_fraction : DepositFractionValues,
     owner_cost_initial : OwnerCostValues,
     annual_owner_cost_inflation : OwnerCostInflationValues,
     monthly_rent : RentValues,
     annual_rent_inflation_rate : RentInflationValues,
     max_months : 0..MaxMonths]

(***************************************************************************)
(* State.                                                                  *)
(***************************************************************************)
VARIABLES
    cfg,                   \* the inputs of this click
    pc,                    \* the handler's position
    st_error,              \* whether st.error was called (line 46)
    \* the frame of the simulator being run (lines 36-69, 124-145)
    rates,                 \* the monthly multipliers and m_interest
    month,
    investment_portfolio,
    outstanding_mortgage,
    current_income,
    current_expenses,
    current_owner_cost,
    current_rent,
    current_house_price,
    cumulative_spent,
    history,
    stop_month,
    \* the handler's results (lines 288-300)
    stop_month_buy, final_portfolio_buy, history_buy,
    stop_month_rent, final_portfolio_rent, history_rent,
    \* the crossover scan (lines 335-339)
    scan_index,
    crossover_month,
    \* format_duration (lines 170-173)
    months,
    duration

frame == <<rates, month, investment_portfolio, outstanding_mortgage, current_income,
           current_expenses, current_owner_cost, current_rent, current_house_price,
           cumulative_spent, history, stop_month>>
buy_results == <<stop_month_buy, final_portfolio_buy, history_buy>>
rent_results == <<stop_month_rent, final_portfolio_rent, history_rent>>
scan == <<scan_index, crossover_month>>
fmt == <<months, duration>>
vars == <<cfg, pc, st_error, frame, buy_results, rent_results, scan, fmt>>

\* no simulator is running: its locals do not exist
NoFrame ==
    /\ rates = None
    /\ month = 0
    /\ investment_portfolio = Zero
    /\ outstanding_mortgage = Zero
    /\ current_income = Zero
    /\ current_expenses = Zero
    /\ current_owner_cost = Zero
    /\ current_rent = Zero
    /\ current_house_price = Zero
    /\ cumulative_spent = Zero
    /\ history = None
    /\ stop_month = None

DropFrame ==
    /\ rates' = None
    /\ month' = 0
    /\ investment_portfolio' = Zero
    /\ outstanding_mortgage' = Zero
    /\ current_income' = Zero
    /\ current_expenses' = Zero
    /\ current_owner_cost' = Zero
    /\ current_rent' = Zero
    /\ current_house_price' = Zero
    /\ cumulative_spent' = Zero
    /\ history' = None
    /\ stop_month' = None

NoResults ==
    /\ stop_month_buy = None /\ final_portfolio_buy = None /\ history_buy = None
    /\ stop_month_rent = None /\ final_portfolio_rent = None /\ history_rent = None
    /\ scan_index = 0 /\ crossover_month = None

\* the button is clicked (line 287)
Init ==
    /\ cfg \in Configs
    /\ pc = "simulate"
    /\ st_error = FALSE
    /\ NoFrame
    /\ NoResults
    /\ months = 0
    /\ duration = ""

(***************************************************************************)
(* simulate_buy_scenario (lines 9-98).                                     *)
(***************************************************************************)
\* line 44
DepositAmount(deposit_fraction, property_price) == RMul(deposit_fraction, property_price)

\* variant of line 45 that also refuses a deposit equal to the savings
InsufficientSavingsOrEqual(initial_savings, deposit_amount) ==
    RLe(initial_savings, deposit_amount)

\* line 45: the scenario cannot start
InsufficientSavings(initial_savings, deposit_amount) == RLt(initial_savings, deposit_amount)

\* variant of line 47 that returns a zero portfolio and an empty series
RefusedResultZeroed ==
    <<None, Some(Zero),
      Some([months |-> <<>>, house_price |-> <<>>, investment_portfolio |-> <<>>,
            net_wealth |-> <<>>, cumulative_spent |-> <<>>])>>

\* line 47: return None, None, None
RefusedResult == <<None, None, None>>

\* variant of line 51 that takes the deposit share for the mortgage share
OutstandingMortgageOfDepositShare(property_price, deposit_fraction) ==
    RMul(property_price, deposit_fraction)

\* line 51
OutstandingMortgage(property_price, deposit_fraction) ==
    RMul(property_price, RSub(One, deposit_fraction))

\* lines 36-41
BuyRates(c) ==
    [mi_growth |-> MonthlyMultiplier(c.annual_income_growth),
     me_growth |-> MonthlyMultiplier(c.annual_inflation_rate),
     mi_return |-> MonthlyMultiplier(c.annual_invest_return),
     m_interest |-> MonthlyInterest(c.mortgage_interest_rate),
     moc_growth |-> MonthlyMultiplier(c.annual_owner_cost_inflation),
     mhp_growth |-> MonthlyMultiplier(c.annual_house_price_growth)]

\* lines 62-68
EmptyBuyHistory ==
    [months |-> <<>>, house_price |-> <<>>, investment_portfolio |-> <<>>,
     net_wealth |-> <<>>, cumulative_spent |-> <<>>]

\* variant of lines 71 and 147 that stops one month early
LoopRunsOneShort(m, max_months) == m + 1 < max_months

\* line 71 (and 147): range(max_months) has a next value
LoopRuns(m, max_months) == m < max_months

\* line 72
NetWealth(house_price, mortgage, portfolio) == RAdd(RSub(house_price, mortgage), portfolio)

\* lines 73-77
BuySnapshot(h, m, house_price, portfolio, net_wealth, spent) ==
    [months |-> Append(h.months, m),
     house_price |-> Append(h.house_price, house_price),
     investment_portfolio |-> Append(h.investment_portfolio, portfolio),
     net_wealth |-> Append(h.net_wealth, net_wealth),
     cumulative_spent |-> Append(h.cumulative_spent, spent)]

\* line 80: investment_portfolio >= outstanding_mortgage
BuyCondition(portfolio, mortgage) == RGe(portfolio, mortgage)

\* variant of lines 80-81 without the "stop_month is None" test: the last
\* qualifying month is kept
RecordLastStopMonth(stop, condition, m) ==
    IF condition THEN Some(m) ELSE stop

\* lines 80-81 (and 153-154): only the first qualifying month is kept
RecordStopMonth(stop, condition, m) ==
    IF IsNone(stop) /\ condition THEN Some(m) ELSE stop

\* line 83
InterestPayment(mortgage, m_interest) == RMul(mortgage, m_interest)

\* variant of lines 85-86 without the clamp
NoFloor(monthly_disposable) == monthly_disposable

\* lines 85-86 (and 157-158)
FloorAtZero(monthly_disposable) ==
    IF RLt(monthly_disposable, Zero) THEN Zero ELSE monthly_disposable

\* lines 84-86
BuyDisposable(income, expenses, interest_payment, owner_cost) ==
    FloorAtZero(RSub(RSub(RSub(income, expenses), interest_payment), owner_cost))

\* variant of line 89 with = for +=
BuySpentOverwritten(spent, interest_payment, owner_cost) ==
    RAdd(interest_payment, owner_cost)

\* variant of line 89 that leaves the owner cost out
BuySpentInterestOnly(spent, interest_payment, owner_cost) ==
    RAdd(spent, interest_payment)

\* line 89
BuySpent(spent, interest_payment, owner_cost) ==
    RAdd(spent, RAdd(interest_payment, owner_cost))

\* line 92 (and 162)
Invest(portfolio, mi_return, monthly_disposable) ==
    RAdd(RMul(portfolio, mi_return), monthly_disposable)

\* lines 93-96 (and 163-166): x *= growth
Grow(x, growth) == RMul(x, growth)

\* lines 36-47: the deposit exceeds the savings; the simulator reports the
\* error and returns None, None, None (line 288 unpacks it)
BuyRefuse ==
    /\ pc = "simulate"
    /\ InsufficientSavings(cfg.initial_savings,
                           DepositAmount(cfg.deposit_fraction, cfg.property_price))
    /\ st_error' = TRUE
    /\ stop_month_buy' = RefusedResult[1]
    /\ final_portfolio_buy' = RefusedResult[2]
    /\ history_buy' = RefusedResult[3]
    /\ pc' = "call_rent"
    /\ UNCHANGED <<cfg, frame, rent_results, scan, fmt>>

\* lines 36-69: the simulator starts
BuyStart ==
    /\ pc = "simulate"
    /\ ~InsufficientSavings(cfg.initial_savings,
                            DepositAmount(cfg.deposit_fraction, cfg.property_price))
    /\ rates' = BuyRates(cfg)
    /\ investment_portfolio' =
           RSub(cfg.initial_savings, DepositAmount(cfg.deposit_fraction, cfg.property_price))
    /\ outstanding_mortgage' = OutstandingMortgage(cfg.property_price, cfg.deposit_fraction)
    /\ current_income' = cfg.monthly_income
    /\ current_expenses' = cfg.monthly_expenses
    /\ current_owner_cost' = cfg.owner_cost_initial
    /\ current_house_price' = cfg.property_price
    /\ cumulative_spent' = DepositAmount(cfg.deposit_fraction, cfg.property_price)
    /\ history' = EmptyBuyHistory
    /\ stop_month' = None
    /\ month' = 0
    /\ pc' = "buy_loop"
    /\ UNCHANGED <<cfg, st_error, current_rent, buy_results, rent_results, scan, fmt>>

\* lines 71-96: one iteration of the loop
BuyMonth ==
    /\ pc = "buy_loop"
    /\ LoopRuns(month, cfg.max_months)
    /\ LET net_wealth == NetWealth(current_house_price, outstanding_mortgage,
                                   investment_portfolio)
           interest_payment == InterestPayment(outstanding_mortgage, rates.m_interest)
           monthly_disposable == BuyDisposable(current_income, current_expenses,
                                               interest_payment, current_owner_cost)
       IN  /\ history' = BuySnapshot(history, month, current_house_price,
                                     investment_portfolio, net_wealth, cumulative_spent)
           /\ stop_month' = RecordStopMonth(stop_month,
                                BuyCondition(investment_portfolio, outstanding_mortgage),
                                month)
           /\ cumulative_spent' = BuySpent(cumulative_spent, interest_payment,
                                           current_owner_cost)
           /\ investment_portfolio' = Invest(investment_portfolio, rates.mi_return,
                                             monthly_disposable)
    /\ current_income' = Grow(current_income, rates.mi_growth)
    /\ current_expenses' = Grow(current_expenses, rates.me_growth)
    /\ current_owner_cost' = Grow(current_owner_cost, rates.moc_growth)
    /\ current_house_price' = Grow(current_house_price, rates.mhp_growth)
    /\ month' = month + 1
    /\ UNCHANGED <<cfg, pc, st_error, rates, outstanding_mortgage, current_rent,
                   buy_results, rent_results, scan, fmt>>

\* line 98 (and 288): return stop_month, investment_portfolio, history
BuyReturn ==
    /\ pc = "buy_loop"
    /\ ~LoopRuns(month, cfg.max_months)
    /\ stop_month_buy' = stop_month
    /\ final_portfolio_buy' = Some(investment_portfolio)
    /\ history_buy' = Some(history)
    /\ DropFrame
    /\ pc' = "call_rent"
    /\ UNCHANGED <<cfg, st_error, rent_results, scan, fmt>>

(***************************************************************************)
(* simulate_rent_scenario (lines 100-168).                                 *)
(***************************************************************************)
\* lines 124-128
RentRates(c) ==
    [mi_growth |-> MonthlyMultiplier(c.annual_income_growth),
     me_growth |-> MonthlyMultiplier(c.annual_inflation_rate),
     mi_return |-> MonthlyMultiplier(c.annual_invest_return),
     mr_growth |-> MonthlyMultiplier(c.annual_rent_inflation_rate),
     mhp_growth |-> MonthlyMultiplier(c.annual_house_price_growth)]

\* lines 139-144
EmptyRentHistory ==
    [months |-> <<>>, house_price |-> <<>>, investment_portfolio |-> <<>>,
     cumulative_spent |-> <<>>]

\* lines 148-151
RentSnapshot(h, m, house_price, portfolio, spent) ==
    [months |-> Append(h.months, m),
     house_price |-> Append(h.house_price, house_price),
     investment_portfolio |-> Append(h.investment_portfolio, portfolio),
     cumulative_spent |-> Append(h.cumulative_spent, spent)]

\* line 153: investment_portfolio >= current_house_price
RentCondition(portfolio, house_price) == RGe(portfolio, house_price)

\* lines 156-158
RentDisposable(income, expenses, rent) ==
    FloorAtZero(RSub(RSub(income, expenses), rent))

\* line 160
RentSpent(spent, rent) == RAdd(spent, rent)

\* lines 124-145 (called at line 295)
RentStart ==
    /\ pc = "call_rent"
    /\ rates' = RentRates(cfg)
    /\ investment_portfolio' = cfg.initial_savings
    /\ current_income' = cfg.monthly_income
    /\ current_expenses' = cfg.monthly_expenses
    /\ current_rent' = cfg.monthly_rent
    /\ current_house_price' = cfg.property_price
    /\ cumulative_spent' = Zero
    /\ history' = EmptyRentHistory
    /\ stop_month' = None
    /\ month' = 0
    /\ pc' = "rent_loop"
    /\ UNCHANGED <<cfg, st_error, outstanding_mortgage, current_owner_cost,
                   buy_results, rent_results, scan, fmt>>

\* lines 147-166: one iteration of the loop
RentMonth ==
    /\ pc = "rent_loop"
    /\ LoopRuns(month, cfg.max_months)
    /\ LET monthly_disposable == RentDisposable(current_income, current_expenses,
                                                current_rent)
       IN  /\ history' = RentSnapshot(history, month, current_house_price,
                                      investment_portfolio, cumulative_spent)
           /\ stop_month' = RecordStopMonth(stop_month,
                                RentCondition(investment_portfolio, current_house_price),
                                month)
           /\ cumulative_spent' = RentSpent(cumulative_spent, current_rent)
           /\ investment_portfolio' = Invest(investment_portfolio, rates.mi_return,
                                             monthly_disposable)
    /\ current_income' = Grow(current_income, rates.mi_growth)
    /\ current_expenses' = Grow(current_expenses, rates.me_growth)
    /\ current_rent' = Grow(current_rent, rates.mr_growth)
    /\ current_house_price' = Grow(current_house_price, rates.mhp_growth)
    /\ month' = month + 1
    /\ UNCHANGED <<cfg, pc, st_error, rates, outstanding_mortgage, current_owner_cost,
                   buy_results, rent_results, scan, fmt>>

\* line 168 (and 295)
RentReturn ==
    /\ pc = "rent_loop"
    /\ ~LoopRuns(month, cfg.max_months)
    /\ stop_month_rent' = stop_month
    /\ final_portfolio_rent' = Some(investment_portfolio)
    /\ history_rent' = Some(history)
    /\ DropFrame
    /\ pc' = "results"
    /\ UNCHANGED <<cfg, st_error, buy_results, scan, fmt>>

(***************************************************************************)
(* The results and the crossover scan (lines 302-339).                     *)
(***************************************************************************)
\* line 326: history_buy["months"] with history_buy None raises TypeError
\* and the handler ends there
ResultsTypeError ==
    /\ pc = "results"
    /\ IsNone(history_buy)
    /\ pc' = "type_error"
    /\ UNCHANGED <<cfg, st_error, frame, buy_results, rent_results, scan, fmt>>

\* lines 326-335
CrossoverStart ==
    /\ pc = "results"
    /\ ~IsNone(history_buy)
    /\ crossover_month' = None
    /\ scan_index' = 0
    /\ pc' = "scan"
    /\ UNCHANGED <<cfg, st_error, frame, buy_results, rent_results, fmt>>

Min(a, b) == IF a <= b THEN a ELSE b

\* line 336: zip stops with its shortest argument
ZipLength(buy_months, buy_cum_spent, rent_cum_spent) ==
    Min(Len(buy_months), Min(Len(buy_cum_spent), Len(rent_cum_spent)))

\* variant of line 337 with the two sides exchanged
CrossoverConditionExchanged(spent_buy, spent_rent) == RLt(spent_rent, spent_buy)

\* variant of line 337 with <= for <
CrossoverConditionNotStrict(spent_buy, spent_rent) == RLe(spent_buy, spent_rent)

\* line 337: spent_buy < spent_rent
CrossoverCondition(spent_buy, spent_rent) == RLt(spent_buy, spent_rent)

\* lines 336-339: one iteration of the scan; the first hit breaks the loop
CrossoverStep ==
    /\ pc = "scan"
    /\ LET buy == Val(history_buy)
           rent == Val(history_rent)
       IN  /\ scan_index < ZipLength(buy.months, buy.cumulative_spent,
                                     rent.cumulative_spent)
           /\ IF CrossoverCondition(buy.cumulative_spent[scan_index + 1],
                                    rent.cumulative_spent[scan_index + 1])
              THEN /\ crossover_month' = Some(buy.months[scan_index + 1])
                   /\ pc' = "done"
                   /\ UNCHANGED scan_index
              ELSE /\ scan_index' = scan_index + 1
                   /\ UNCHANGED <<pc, crossover_month>>
    /\ UNCHANGED <<cfg, st_error, frame, buy_results, rent_results, fmt>>

\* line 336: the scan is exhausted without a hit
CrossoverExhausted ==
    /\ pc = "scan"
    /\ LET buy == Val(history_buy)
           rent == Val(history_rent)
       IN  scan_index >= ZipLength(buy.months, buy.cumulative_spent,
                                   rent.cumulative_spent)
    /\ pc' = "done"
    /\ UNCHANGED <<cfg, st_error, frame, buy_results, rent_results, scan, fmt>>

Next ==
    \/ BuyRefuse
    \/ BuyStart
    \/ BuyMonth
    \/ BuyReturn
    \/ RentStart
    \/ RentMonth
    \/ RentReturn
    \/ ResultsTypeError
    \/ CrossoverStart
    \/ CrossoverStep
    \/ CrossoverExhausted

Spec == Init /\ [][Next]_vars

(***************************************************************************)
(* format_duration (lines 170-173), applied to the month counts            *)
(* 0..MaxDuration.                                                         *)
(***************************************************************************)
\* variant of line 171 that rounds the years up
DurationYearsRoundedUp(n) == (n + 11) \div 12

\* line 171
DurationYears(n) == n \div 12

\* line 172
DurationRemainingMonths(n) == n % 12

\* line 173: f"{years} years, {remaining_months} months"
DurationText(years, remaining_months) ==
    ToString(years) \o " years, " \o ToString(remaining_months) \o " months"

format_duration(n) == DurationText(DurationYears(n), DurationRemainingMonths(n))

FormatInit ==
    /\ cfg = CHOOSE c \in Configs : TRUE
    /\ pc = "format"
    /\ st_error = FALSE
    /\ NoFrame
    /\ NoResults
    /\ months \in 0..MaxDuration
    /\ duration = ""

FormatDuration ==
    /\ pc = "format"
    /\ duration' = format_duration(months)
    /\ pc' = "formatted"
    /\ UNCHANGED <<cfg, st_error, frame, buy_results, rent_results, scan, months>>

FormatNext == FormatDuration

SpecFormat == FormatInit /\ [][FormatNext]_vars

(***************************************************************************)
(* Properties.                                                             *)
(***************************************************************************)
\* the handler is past the call of simulate_buy_scenario
BuyCallOver == pc \in {"call_rent", "rent_loop", "results", "type_error", "scan", "done"}
\* the handler is past the call of simulate_rent_scenario
RentCallOver == pc \in {"results", "type_error", "scan", "done"}

\* the deposit of the inputs, deposit_fraction * property_price
Deposit == RMul(cfg.deposit_fraction, cfg.property_price)

\* the series a property reads: the one being recorded inside a simulator,
\* the returned one after it
BuySeriesKnown == pc = "buy_loop" \/ (BuyCallOver /\ ~IsNone(history_buy))
BuySeries == IF pc = "buy_loop" THEN history ELSE Val(history_buy)
RentSeriesKnown == pc = "rent_loop" \/ RentCallOver
RentSeries == IF pc = "rent_loop" THEN history ELSE Val(history_rent)

\* C1: simulate_buy_scenario signals the insufficient-deposit failure if and
\* only if deposit_fraction * property_price > initial_savings: the loop is
\* entered only with deposit <= initial_savings, and after the call the error
\* is reported and no series returned exactly when the deposit is strictly
\* greater than the savings (equality starts and runs).
C1_RefusedIffDepositExceedsSavings ==
    /\ pc = "buy_loop" => ~st_error /\ RLe(Deposit, cfg.initial_savings)
    /\ BuyCallOver =>
          /\ st_error <=> RLt(cfg.initial_savings, Deposit)
          /\ IsNone(history_buy) <=> RLt(cfg.initial_savings, Deposit)

\* a run whose deposit is exactly the savings has started and recorded months
C1_Witness ==
    /\ pc = "call_rent"
    /\ Deposit = cfg.initial_savings
    /\ ~st_error
    /\ ~IsNone(history_buy)
    /\ Len(Val(history_buy).months) > 0

\* C2: a refused buy run returns nothing at all (stop month, final portfolio
\* and series all None, and the loop is never entered), whereas every run
\* that starts returns a present series and final portfolio, also when its
\* stop_month is None; the rent run always returns a series and a portfolio.
C2_RefusalReturnsNothingRunsReturnSeries ==
    /\ pc = "buy_loop" => ~st_error
    /\ BuyCallOver =>
          IF st_error
          THEN /\ IsNone(stop_month_buy)
               /\ IsNone(final_portfolio_buy)
               /\ IsNone(history_buy)
          ELSE /\ ~IsNone(final_portfolio_buy)
               /\ ~IsNone(history_buy)
    /\ RentCallOver => ~IsNone(final_portfolio_rent) /\ ~IsNone(history_rent)

\* a run that started and never reached homeownership: stop_month is None
\* and the series and the final portfolio are present
C2_Witness ==
    /\ pc = "call_rent"
    /\ ~st_error
    /\ IsNone(stop_month_buy)
    /\ ~IsNone(final_portfolio_buy)
    /\ ~IsNone(history_buy)
    /\ Len(Val(history_buy).months) = MaxMonths

\* the month values 0, 1, ..., n-1
MonthsUpTo(n) == [i \in 1..n |-> i - 1]

\* C3: the returned series of a buy run that starts and of every rent run
\* has exactly max_months entries in each column, and its months are exactly
\* 0, 1, ..., max_months-1 in order (while a simulator runs, the series holds
\* one snapshot for each month done so far).
C3_OneSnapshotPerMonth ==
    /\ BuySeriesKnown =>
          LET n == IF pc = "buy_loop" THEN month ELSE cfg.max_months
          IN  /\ BuySeries.months = MonthsUpTo(n)
              /\ Len(BuySeries.house_price) = n
              /\ Len(BuySeries.investment_portfolio) = n
              /\ Len(BuySeries.net_wealth) = n
              /\ Len(BuySeries.cumulative_spent) = n
    /\ RentSeriesKnown =>
          LET n == IF pc = "rent_loop" THEN month ELSE cfg.max_months
          IN  /\ RentSeries.months = MonthsUpTo(n)
              /\ Len(RentSeries.house_price) = n
              /\ Len(RentSeries.investment_portfolio) = n
              /\ Len(RentSeries.cumulative_spent) = n

\* both simulators have returned series of the longest horizon
C3_Witness ==
    /\ pc = "results"
    /\ cfg.max_months = MaxMonths
    /\ ~IsNone(history_buy)
    /\ Val(history_buy).months = MonthsUpTo(MaxMonths)
    /\ Val(history_rent).months = MonthsUpTo(MaxMonths)

\* the months of a buy series whose snapshot satisfies portfolio >= mortgage
BuyQualifying(h) ==
    {i \in 1..Len(h.months) :
        RGe(h.investment_portfolio[i],
            RMul(cfg.property_price, RSub(One, cfg.deposit_fraction)))}
\* the months of a rent series whose snapshot satisfies portfolio >= house price
RentQualifying(h) ==
    {i \in 1..Len(h.months) : RGe(h.investment_portfolio[i], h.house_price[i])}
\* the first month among the qualifying ones, None when there is none
FirstMonth(h, qualifying) ==
    IF qualifying = {}
    THEN None
    ELSE Some(h.months[CHOOSE i \in qualifying : \A j \in qualifying : i <= j])

\* C4: in both simulators stop_month is the smallest recorded month whose
\* pre-cashflow snapshot satisfies the homeownership condition, and None
\* exactly when no recorded month does; this holds after every iteration, so
\* a recorded stop_month never changes in later months.
C4_StopMonthIsFirstQualifying ==
    /\ pc = "buy_loop" => stop_month = FirstMonth(history, BuyQualifying(history))
    /\ (BuyCallOver /\ ~IsNone(history_buy)) =>
          stop_month_buy = FirstMonth(Val(history_buy), BuyQualifying(Val(history_buy)))
    /\ pc = "rent_loop" => stop_month = FirstMonth(history, RentQualifying(history))
    /\ RentCallOver =>
          stop_month_rent = FirstMonth(Val(history_rent), RentQualifying(Val(history_rent)))

\* a rent run whose condition held at month 0 and stopped holding in the
\* months after: the returned stop_month is still 0
C4_Witness ==
    /\ pc = "results"
    /\ stop_month_rent = Some(0)
    /\ Len(Val(history_rent).months) = MaxMonths
    /\ RentQualifying(Val(history_rent)) = {1}

\* a series' cumulative_spent never decreases from one month to the next
NonDecreasing(spent) ==
    \A i \in 1..(Len(spent) - 1) : RLe(spent[i], spent[i + 1])

\* the flat monthly interest charge of the inputs
InterestCharge ==
    RMul(RMul(cfg.property_price, RSub(One, cfg.deposit_fraction)),
         RMul(cfg.mortgage_interest_rate, Frac(1, 12)))

\* C5 as stated: in every run of either simulator cumulative_spent is
\* non-decreasing from each month to the next, in the buy series and in the
\* rent series.
C5_Original ==
    /\ BuySeriesKnown => NonDecreasing(BuySeries.cumulative_spent)
    /\ RentSeriesKnown => NonDecreasing(RentSeries.cumulative_spent)

\* C5, amended: cumulative_spent is non-decreasing in the buy series of every
\* run whose interest charge and owner_cost_initial are both >= 0, and in the
\* rent series of every run whose monthly_rent is >= 0.
C5_SpentNonDecreasingForNonNegativeCharges ==
    /\ (BuySeriesKnown /\ RGe(InterestCharge, Zero) /\ RGe(cfg.owner_cost_initial, Zero))
          => NonDecreasing(BuySeries.cumulative_spent)
    /\ (RentSeriesKnown /\ RGe(cfg.monthly_rent, Zero))
          => NonDecreasing(RentSeries.cumulative_spent)

\* both series of a run with non-negative charges are complete and rise
C5_Witness ==
    /\ pc = "results"
    /\ ~IsNone(history_buy)
    /\ RGe(InterestCharge, Zero) /\ RGe(cfg.owner_cost_initial, Zero)
    /\ RGe(cfg.monthly_rent, Zero)
    /\ cfg.max_months = MaxMonths
    /\ RLt(Val(history_buy).cumulative_spent[1], Val(history_buy).cumulative_spent[MaxMonths])
    /\ RLt(Val(history_rent).cumulative_spent[1], Val(history_rent).cumulative_spent[MaxMonths])

\* the first month, in increasing order, with buy spend strictly below rent
\* spend; None when there is none
FirstCrossover(buy, rent) ==
    LET hits == {i \in 1..Len(buy.months) :
                    RLt(buy.cumulative_spent[i], rent.cumulative_spent[i])}
    IN  FirstMonth(buy, hits)

\* C6: given the two series (of equal length), the scan ends with the first
\* month c whose buy spend is strictly below the rent spend, every earlier
\* month having buy spend >= rent spend, and with None exactly when no month
\* satisfies the strict inequality; later re-crossings do not change it.
C6_CrossoverIsFirstStrictlyCheaperMonth ==
    /\ pc = "scan" =>
          /\ IsNone(crossover_month)
          /\ \A i \in 1..scan_index :
                RGe(Val(history_buy).cumulative_spent[i],
                    Val(history_rent).cumulative_spent[i])
    /\ pc = "done" =>
          /\ Len(Val(history_buy).months) = Len(Val(history_rent).months)
          /\ crossover_month = FirstCrossover(Val(history_buy), Val(history_rent))
          /\ ~IsNone(crossover_month) =>
                LET c == Val(crossover_month) + 1
                IN  /\ RLt(Val(history_buy).cumulative_spent[c],
                           Val(history_rent).cumulative_spent[c])
                    /\ \A i \in 1..(c - 1) :
                          RGe(Val(history_buy).cumulative_spent[i],
                              Val(history_rent).cumulative_spent[i])

\* a scan that found the crossover although a later month crosses back
C6_Witness ==
    /\ pc = "done"
    /\ ~IsNone(crossover_month)
    /\ \E i \in 1..Len(Val(history_buy).months) :
          /\ i > Val(crossover_month) + 1
          /\ RGe(Val(history_buy).cumulative_spent[i],
                 Val(history_rent).cumulative_spent[i])

\* C7: in every buy run that starts the outstanding mortgage is
\* property_price * (1 - deposit_fraction) in every month, every snapshot has
\* net_wealth = (house_price - outstanding_mortgage) + portfolio, and the
\* month-0 snapshot has portfolio = initial_savings - deposit,
\* cumulative_spent = deposit, house_price = property_price and so
\* net_wealth = initial_savings.
C7_MortgageConstantAndNetWealth ==
    LET mortgage == RMul(cfg.property_price, RSub(One, cfg.deposit_fraction))
    IN  /\ pc = "buy_loop" => outstanding_mortgage = mortgage
        /\ BuySeriesKnown =>
              /\ \A i \in 1..Len(BuySeries.months) :
                    BuySeries.net_wealth[i] =
                        RAdd(RSub(BuySeries.house_price[i], mortgage),
                             BuySeries.investment_portfolio[i])
              /\ Len(BuySeries.months) > 0 =>
                    /\ BuySeries.months[1] = 0
                    /\ BuySeries.investment_portfolio[1] = RSub(cfg.initial_savings, Deposit)
                    /\ BuySeries.cumulative_spent[1] = Deposit
                    /\ BuySeries.house_price[1] = cfg.property_price
                    /\ BuySeries.net_wealth[1] = cfg.initial_savings

\* a run with a positive deposit and mortgage, in its last month, with a
\* house price and a portfolio that have both moved
C7_Witness ==
    /\ pc = "buy_loop"
    /\ month = MaxMonths
    /\ RLt(Zero, Deposit)
    /\ RLt(Zero, outstanding_mortgage)
    /\ history.house_price[MaxMonths] # cfg.property_price
    /\ history.investment_portfolio[MaxMonths] # history.investment_portfolio[1]

\* an amount of the inputs after m months of growth at an annual rate
GrownTimes(amount, annual_rate, m) == RMul(amount, RPow(MonthlyMultiplier(annual_rate), m))

\* income - expenses - housing charges of month m, before any clamping
BuyBalance(m) ==
    RSub(RSub(RSub(GrownTimes(cfg.monthly_income, cfg.annual_income_growth, m),
                   GrownTimes(cfg.monthly_expenses, cfg.annual_inflation_rate, m)),
              InterestCharge),
         GrownTimes(cfg.owner_cost_initial, cfg.annual_owner_cost_inflation, m))
RentBalance(m) ==
    RSub(RSub(GrownTimes(cfg.monthly_income, cfg.annual_income_growth, m),
              GrownTimes(cfg.monthly_expenses, cfg.annual_inflation_rate, m)),
         GrownTimes(cfg.monthly_rent, cfg.annual_rent_inflation_rate, m))
Max0(x) == IF RLe(Zero, x) THEN x ELSE Zero

\* the portfolio values of a run in month order: the snapshots, then the
\* value after the last month done (the final portfolio once returned)
BuyPortfolios ==
    IF pc = "buy_loop"
    THEN Append(history.investment_portfolio, investment_portfolio)
    ELSE Append(Val(history_buy).investment_portfolio, Val(final_portfolio_buy))
RentPortfolios ==
    IF pc = "rent_loop"
    THEN Append(history.investment_portfolio, investment_portfolio)
    ELSE Append(Val(history_rent).investment_portfolio, Val(final_portfolio_rent))

\* every month adds max(0, balance) to the portfolio grown by the invest
\* multiplier, so the portfolio is at least the grown portfolio
AddsClampedDisposable(portfolios, Balance(_)) ==
    LET mi_return == MonthlyMultiplier(cfg.annual_invest_return)
    IN  \A i \in 1..(Len(portfolios) - 1) :
           /\ portfolios[i + 1] = RAdd(RMul(portfolios[i], mi_return), Max0(Balance(i - 1)))
           /\ RGe(portfolios[i + 1], RMul(portfolios[i], mi_return))
NeverNegative(portfolios) == \A i \in 1..Len(portfolios) : RGe(portfolios[i], Zero)

\* C8 as stated: in both simulators the amount added to the portfolio each
\* month is max(0, income - expenses - housing charges), so that
\* portfolio[m+1] >= portfolio[m] * monthly_invest_multiplier, and the
\* portfolio is never negative in any snapshot or in the final value.
C8_Original ==
    /\ BuySeriesKnown =>
          /\ AddsClampedDisposable(BuyPortfolios, BuyBalance)
          /\ NeverNegative(BuyPortfolios)
    /\ RentSeriesKnown =>
          /\ AddsClampedDisposable(RentPortfolios, RentBalance)
          /\ NeverNegative(RentPortfolios)

\* C8, amended: the amount added each month is max(0, income - expenses -
\* housing charges) in both simulators, so that portfolio[m+1] >=
\* portfolio[m] * monthly_invest_multiplier; the portfolio is never negative
\* in a buy run, and in a rent run whenever initial_savings >= 0.
C8_ClampedDisposableAndPortfolioSign ==
    /\ BuySeriesKnown =>
          /\ AddsClampedDisposable(BuyPortfolios, BuyBalance)
          /\ NeverNegative(BuyPortfolios)
    /\ RentSeriesKnown =>
          /\ AddsClampedDisposable(RentPortfolios, RentBalance)
          /\ RGe(cfg.initial_savings, Zero) => NeverNegative(RentPortfolios)

\* a buy run with a positive portfolio whose month 0 was a shortfall month and
\* whose month 1 was not
C8_Witness ==
    /\ pc = "buy_loop"
    /\ month >= 2
    /\ RLt(BuyBalance(0), Zero)
    /\ RLt(Zero, BuyBalance(1))
    /\ RLt(Zero, history.investment_portfolio[1])
    /\ history.investment_portfolio[2] =
          RMul(history.investment_portfolio[1], rates.mi_return)

\* the cumulative spend of a run in month order: the snapshots, then the
\* value after the last month done
SpentSoFar == Append(history.cumulative_spent, cumulative_spent)

\* C10: in a buy run cumulative_spent rises from snapshot m to snapshot m+1 by
\* the same flat interest charge outstanding_mortgage * mortgage_interest_rate
\* / 12 plus owner_cost_initial grown exactly m times, also in months whose
\* disposable income is clamped to 0; in a rent run it rises by monthly_rent
\* grown exactly m times.
C10_MonthlyChargeAddedToSpent ==
    /\ pc = "buy_loop" =>
          \A i \in 1..(Len(SpentSoFar) - 1) :
             RSub(SpentSoFar[i + 1], SpentSoFar[i]) =
                RAdd(InterestCharge,
                     GrownTimes(cfg.owner_cost_initial, cfg.annual_owner_cost_inflation,
                                i - 1))
    /\ (BuyCallOver /\ ~IsNone(history_buy)) =>
          \A i \in 1..(Len(Val(history_buy).cumulative_spent) - 1) :
             RSub(Val(history_buy).cumulative_spent[i + 1],
                  Val(history_buy).cumulative_spent[i]) =
                RAdd(InterestCharge,
                     GrownTimes(cfg.owner_cost_initial, cfg.annual_owner_cost_inflation,
                                i - 1))
    /\ pc = "rent_loop" =>
          \A i \in 1..(Len(SpentSoFar) - 1) :
             RSub(SpentSoFar[i + 1], SpentSoFar[i]) =
                GrownTimes(cfg.monthly_rent, cfg.annual_rent_inflation_rate, i - 1)
    /\ RentCallOver =>
          \A i \in 1..(Len(Val(history_rent).cumulative_spent) - 1) :
             RSub(Val(history_rent).cumulative_spent[i + 1],
                  Val(history_rent).cumulative_spent[i]) =
                GrownTimes(cfg.monthly_rent, cfg.annual_rent_inflation_rate, i - 1)

\* a buy run with a positive interest charge and a growing owner cost, all of
\* whose months were shortfall months
C10_Witness ==
    /\ pc = "buy_loop"
    /\ month = MaxMonths
    /\ RLt(Zero, InterestCharge)
    /\ RLt(Zero, cfg.owner_cost_initial)
    /\ rates.moc_growth # One
    /\ \A m \in 0..(MaxMonths - 1) : RLt(BuyBalance(m), Zero)

\* C11: when both simulators have run on the same horizon and the deposit is
\* non-negative, the month-0 snapshots have buy cumulative_spent = deposit >=
\* 0 = rent cumulative_spent, so the crossover month is never month 0: a
\* crossover month that is returned is >= 1 and < max_months.
C11_CrossoverNeverMonthZero ==
    (pc \in {"scan", "done"} /\ RGe(Deposit, Zero)) =>
        /\ Len(Val(history_buy).months) = Len(Val(history_rent).months)
        /\ Len(Val(history_buy).months) > 0 =>
              /\ Val(history_buy).cumulative_spent[1] = Deposit
              /\ Val(history_rent).cumulative_spent[1] = Zero
        /\ ~IsNone(crossover_month) =>
              /\ Val(crossover_month) >= 1
              /\ Val(crossover_month) < cfg.max_months

\* a scan over two series of a run with a positive deposit that found the
\* crossover after month 0
C11_Witness ==
    /\ pc = "done"
    /\ RLt(Zero, Deposit)
    /\ ~IsNone(crossover_month)
    /\ Val(crossover_month) >= 1
    /\ RLt(Val(history_buy).cumulative_spent[Val(crossover_month) + 1],
           Val(history_rent).cumulative_spent[Val(crossover_month) + 1])

(***************************************************************************)
(* Properties of format_duration, under SpecFormat.                        *)
(***************************************************************************)
\* C9 as stated: format_duration(n) yields the pair (years, remaining_months)
\* with years = floor(n / 12) and remaining_months = n mod 12.
C9_Original ==
    pc = "formatted" =>
        /\ Len(duration) = 2
        /\ duration = <<months \div 12, months % 12>>

\* C9, amended: format_duration(n) yields the text "<years> years,
\* <remaining_months> months" for the one pair with 12 * years +
\* remaining_months = n and 0 <= remaining_months <= 11; 0 gives "0 years,
\* 0 months", 13 gives "1 years, 1 months" and 360 gives "30 years, 0 months".
C9_DurationTextOfYearsAndMonths ==
    pc = "formatted" =>
        /\ \E years \in 0..months, remaining_months \in 0..11 :
              /\ 12 * years + remaining_months = months
              /\ duration = ToString(years) \o " years, "
                               \o ToString(remaining_months) \o " months"
        /\ months = 0 => duration = "0 years, 0 months"
        /\ months = 13 => duration = "1 years, 1 months"
        /\ months = 360 => duration = "30 years, 0 months"

\* format_duration has been applied to 360
C9_Witness ==
    /\ pc = "formatted"
    /\ months = 360
    /\ duration = "30 years, 0 months"

====
